---- MODULE Spec2Model ----
(***************************************************************************)
(* Model of the AEFI WhatsApp quiz bot (src/app.py): the POST /webhook     *)
(* handler, the in-memory session dictionary and the outbound senders.     *)
(*                                                                         *)
(* The handler is translated statement by statement into labelled steps    *)
(* (one label per access to shared state, named after the source line).    *)
(* A request is accepted at any time and the steps of the invocations in   *)
(* flight interleave, as in the threaded development server.  SpecConc     *)
(* follows every kind of request of one user on every bank, all sends      *)
(* returning; Spec the same requests on banks of at most one question over *)
(* a network whose sends may raise; SpecUsers the requests of all users on *)
(* a bank of one question.  SpecRender applies send_question to rows of    *)
(* every shape.                                                            *)
(***************************************************************************)
EXTENDS Integers, Sequences, FiniteSets, TLC

(* ------------------------------ bounds -------------------------------- *)
NumUsers == 2
MaxQuestions == 2
MaxScore == 1
NumThreads == 2
MaxIndex == 3

Users == 1..NumUsers
Threads == 1..NumThreads
ObjIds == 1..(NumUsers + NumThreads)

(* --------------------------- Python values ---------------------------- *)
\* q_index None of line 180, kept apart from every integer index
None == -1
\* no dictionary entry / no object bound to the name
Absent == 0
\* message without a "from" key
NoUser == 0

Digits == <<"0", "1", "2", "3", "4", "5", "6", "7", "8", "9">>

RECURSIVE str(_)
\* str() of a non-negative int: decimal digits, most significant first
str(n) == IF n < 10 THEN Digits[n + 1]
          ELSE str(n \div 10) \o Digits[(n % 10) + 1]

(* ---------------------------- question bank --------------------------- *)
\* The cells of a question of the sheet: the option numbers whose "Option i"
\* cell is not NaN, and the integer in "Correct Option".
Cells ==
  { [options |-> {1, 2},       correct |-> 1],
    [options |-> {1, 2, 3},    correct |-> 4],
    [options |-> {1, 2, 3, 4}, correct |-> 4] }

\* the "Option i" columns a sheet has: a column can be there and be blank
ColumnSets == { {1, 2, 3}, {1, 2, 3, 4} }

\* A row of df (the Series df.iloc[q]): its non-NaN option cells, the option
\* columns in its index, and its correct option.
RowSet ==
  { row \in { [options |-> r.options, columns |-> cs, correct |-> r.correct] :
                r \in Cells, cs \in ColumnSets } :
      row.options \subseteq row.columns }

RECURSIVE SeqsUpTo(_, _)
\* the sequences of at most n elements of S
SeqsUpTo(S, n) ==
  IF n = 0 THEN { <<>> }
  ELSE LET shorter == SeqsUpTo(S, n - 1)
       IN  shorter \cup
           { Append(s, x) : s \in { q \in shorter : Len(q) = n - 1 }, x \in S }

\* the data frames the load of lines 11-15 can yield (empty on failure): up to
\* MaxQuestions rows over the same columns, no question twice
Banks == { b \in SeqsUpTo(RowSet, MaxQuestions) :
             /\ \A i, j \in 1..Len(b) : b[i].columns = b[j].columns
             /\ \A i, j \in 1..Len(b) : b[i] = b[j] => i = j }

VARIABLES df, user_sessions, heap, threads, pre

vars == <<df, user_sessions, heap, threads, pre>>

\* df.empty, line 83 and line 207
empty(d) == Len(d) = 0

\* "Option i" is a column of the frame, filled or blank
HasOptionColumn(d, i) == \E k \in 1..Len(d) : i \in d[k].columns

(* ------------------------------ sessions ------------------------------ *)
\* the dictionary literal of line 180
NewSession == [score |-> 0, q_index |-> None]

\* the contents of an object no name refers to
FreeObj == [score |-> 0, q_index |-> None]

NoSession == [score |-> None, q_index |-> None]

\* the whole store as values, NoSession for the users without an entry
View(us, hp) == [u \in Users |-> IF us[u] = Absent THEN NoSession ELSE hp[us[u]]]

(* --------------------------- inbound events --------------------------- *)
\* ids an interactive reply can carry: the start action, option numbers
\* ("1" an option of every question and the correct one of some, "4" an
\* option of some questions only), and the empty string
Ids == {"start_quiz", "1", "4", ""}

\* ids of the rows of a list message (line 130): option numbers only
ListIds == {"4"}

NoEvent == [type |-> "none", from |-> NoUser, id |-> ""]

\* the POST bodies: a body that is not valid JSON; a body whose content type
\* is not JSON; value without "messages"; a message without "from"; text;
\* interactive button_reply / list_reply carrying an id; interactive of
\* another sub-type; a message of another type (image, audio, ...)
Events ==
  { [type |-> t, from |-> NoUser, id |-> ""] :
       t \in {"invalid_json", "not_json", "no_messages", "no_from"} }
  \cup { [type |-> t, from |-> u, id |-> ""] :
           t \in {"text", "unknown_interactive", "image"}, u \in Users }
  \cup { [type |-> "button_reply", from |-> u, id |-> i] : u \in Users, i \in Ids }
  \cup { [type |-> "list_reply", from |-> u, id |-> i] : u \in Users, i \in ListIds }

\* message.get("type") == "interactive", line 189
IsInteractive(ev) == ev.type \in {"button_reply", "list_reply", "unknown_interactive"}

\* lines 192-196: the id of a button_reply or list_reply, else None ("")
button_id(ev) == IF ev.type \in {"button_reply", "list_reply"} THEN ev.id ELSE ""

(* -------------------------- outbound messages ------------------------- *)
\* what requests.post does with one call: it returns the provider's response
\* (whatever its status, the code only prints it: lines 46, 67, 139), or the
\* transport raises (connection error, timeout)
Outcomes == {"ok", "raise"}

\* the outcomes of the sends of one invocation, in order: at most two sends
\* (feedback, then question or completion), none after one that raised
Nets == { <<"ok", "ok">>, <<"ok", "raise">>, <<"raise">> }

\* the outcomes on a network on which no send raises
AllSendsReturn == <<"ok", "ok">>

Msg(type, to, body, n, m, ids) ==
  [type |-> type, to |-> to, body |-> body, n |-> n, m |-> m, ids |-> ids]

\* send_start_prompt, lines 70-78
StartPrompt(to) == Msg("button", to, "greeting", 0, 0, <<"start_quiz">>)

\* line 208
NoQuestionsNotice(to) == Msg("text", to, "no_questions_loaded", 0, 0, <<>>)

\* line 84
NoDataNotice(to) == Msg("text", to, "no_question_data", 0, 0, <<>>)

\* lines 226-230
CorrectFeedback(to) == Msg("text", to, "correct", 0, 0, <<>>)

\* lines 232-236: names the correct option
IncorrectFeedback(to, c) == Msg("text", to, "incorrect", c, 0, <<>>)

\* lines 244-247
Completion(to, score, total) == Msg("text", to, "completed", score, total, <<>>)

RECURSIVE OptionIds(_, _)
\* lines 93-97 with the id of lines 105/130: str(i) for each present option
\* i of 1..4, in increasing order
OptionIds(row, i) ==
  IF i > 4 THEN <<>>
  ELSE (IF i \in row.options THEN <<str(i)>> ELSE <<>>) \o OptionIds(row, i + 1)

\* the button limit of line 103
ButtonLimit == 3

\* lines 102-139 with the comparison of line 103 made strict
QuestionMsg_StrictLimit(to, q, row) ==
  LET ids == OptionIds(row, 1)
  IN  Msg(IF Len(ids) < ButtonLimit THEN "button" ELSE "list",
          to, "question", q + 1, 0, ids)

\* lines 102-139: buttons for at most three options, a list otherwise
QuestionMsg(to, q, row) ==
  LET ids == OptionIds(row, 1)
  IN  Msg(IF Len(ids) <= ButtonLimit THEN "button" ELSE "list",
          to, "question", q + 1, 0, ids)

(* ------------------------- handler invocations ------------------------ *)
\* One invocation of webhook(): its position, its request, the outcomes the
\* network will give its sends, its local names, and what it has produced
\* (messages sent, rows looked up, the JSON status returned, whether the
\* except clause of line 250 ran).
IdleThread ==
  [pc |-> "idle", ev |-> NoEvent, net |-> <<>>, session |-> Absent, tmp |-> 0,
   q_index |-> None, choice |-> "", correct_option |-> "",
   sent |-> <<>>, lookups |-> <<>>, status |-> "none", raised |-> FALSE]

World(us, hp, th) == [us |-> us, heap |-> hp, th |-> th]

\* return jsonify({"status": status}), 200: lines 186, 200, 211, 253
Return(th, status) ==
  [th EXCEPT !.pc = "done", !.status = status, !.net = <<>>, !.session = Absent,
             !.tmp = 0, !.q_index = None, !.choice = "", !.correct_option = ""]

\* an exception inside the try block: lines 250-253 print it and return ok
Raise(th) == [Return(th, "ok") EXCEPT !.raised = TRUE]

\* requests.post of lines 45, 66, 138: the message goes out with the outcome
\* the network gives it; a transport error propagates to line 250
Send(th, msg) ==
  LET o  == Head(th.net)
      t1 == [th EXCEPT !.sent = Append(@, [msg |-> msg, result |-> o]),
                       !.net = Tail(@)]
  IN  IF o = "raise" THEN Raise(t1) ELSE t1

\* a send followed by the statement at label next ("done": return ok)
SendThen(th, msg, next) ==
  LET t1 == Send(th, msg)
  IN  IF t1.raised THEN t1
      ELSE IF next = "done" THEN Return(t1, "ok")
      ELSE [t1 EXCEPT !.pc = next]

\* df.iloc[q] of lines 87 and 217 accepts integer positions inside the frame
\* (q_index is never negative); None raises TypeError, others IndexError
ValidIndex(d, q) == q /= None /\ q >= 0 /\ q < Len(d)

\* send_question, lines 81-139
send_question(d, th, to, q) ==
  IF empty(d) THEN SendThen(th, NoDataNotice(to), "done")
  ELSE LET t1 == [th EXCEPT !.lookups = Append(@, q)]
       IN  IF ~ValidIndex(d, q) THEN Raise(t1)
           ELSE SendThen(t1, QuestionMsg(to, q, d[q + 1]), "done")

\* line 224
IsCorrect(choice, correct_option) == choice = correct_option

\* line 225
Increment(score) == score + 1

\* line 240
Advance(q) == q + 1

\* line 241
HasNext(q, d) == q < Len(d)

\* lines 174-176: data.get raises AttributeError when data is None; no
\* "messages" key skips the block; message["from"] raises KeyError when the
\* key is missing
L174(d, us, hp, th) ==
  World(us, hp,
        IF th.ev.type = "not_json" THEN Raise(th)
        ELSE IF th.ev.type = "no_messages" THEN Return(th, "ok")
        ELSE IF th.ev.type = "no_from" THEN Raise(th)
        ELSE [th EXCEPT !.pc = "L179"])

\* line 179
L179(d, us, hp, th) ==
  World(us, hp, [th EXCEPT !.pc = IF us[th.ev.from] = Absent THEN "L180" ELSE "L183"])

\* line 180: a new dictionary is bound to the user
L180(d, us, hp, th, fresh) ==
  World([us EXCEPT ![th.ev.from] = fresh],
        [hp EXCEPT ![fresh] = NewSession],
        [th EXCEPT !.pc = "L183"])

\* lines 183-203: dispatch on the message type and the reply id
L183(d, us, hp, th) ==
  World(us, hp,
        IF th.ev.type = "text" THEN [th EXCEPT !.pc = "L184"]
        ELSE IF IsInteractive(th.ev)
        THEN IF button_id(th.ev) = "" THEN Return(th, "ignored")
             ELSE IF button_id(th.ev) = "start_quiz" THEN [th EXCEPT !.pc = "L204"]
             ELSE [th EXCEPT !.pc = "L215"]
        ELSE Return(th, "ok"))

\* line 184, the lookup user_sessions[from_number]: KeyError when the entry
\* is gone
L184(d, us, hp, th) ==
  LET u == th.ev.from
  IN  World(us, hp,
        IF us[u] = Absent THEN Raise(th)
        ELSE [th EXCEPT !.session = us[u], !.pc = "L184r"])

\* line 184, the read of ["q_index"] in the dictionary looked up
L184r(d, us, hp, th) ==
  World(us, hp,
        IF hp[th.session].q_index = None THEN [th EXCEPT !.session = Absent, !.pc = "L185"]
        ELSE Return(th, "ok"))

\* lines 185-186
L185(d, us, hp, th) == World(us, hp, SendThen(th, StartPrompt(th.ev.from), "done"))

\* line 204, the lookup user_sessions[from_number]
L204(d, us, hp, th) ==
  LET u == th.ev.from
  IN  World(us, hp,
        IF us[u] = Absent THEN Raise(th)
        ELSE [th EXCEPT !.session = us[u], !.pc = "L204w"])

\* line 204, the store of 0 into ["q_index"] of the dictionary looked up
L204w(d, us, hp, th) ==
  World(us, [hp EXCEPT ![th.session].q_index = 0],
        [th EXCEPT !.session = Absent, !.pc = "L207"])

\* lines 207-211
L207(d, us, hp, th) ==
  World(us, hp,
        IF empty(d) THEN SendThen(th, NoQuestionsNotice(th.ev.from), "done")
        ELSE send_question(d, th, th.ev.from, 0))

\* line 215
L215(d, us, hp, th) ==
  LET u == th.ev.from
  IN  World(us, hp,
        IF us[u] = Absent THEN Raise(th)
        ELSE [th EXCEPT !.session = us[u], !.pc = "L216"])

\* lines 216-224
L216(d, us, hp, th) ==
  LET q  == hp[th.session].q_index
      t1 == [th EXCEPT !.lookups = Append(@, q)]
  IN  World(us, hp,
        IF ~ValidIndex(d, q) THEN Raise(t1)
        ELSE LET choice == button_id(th.ev)
                 correct_option == str(d[q + 1].correct)
             IN  [t1 EXCEPT !.q_index = q, !.choice = choice,
                            !.correct_option = correct_option,
                            !.pc = IF IsCorrect(choice, correct_option)
                                   THEN "L225r" ELSE "L232"])

\* line 225, the read of session["score"]
L225r(d, us, hp, th) ==
  World(us, hp, [th EXCEPT !.tmp = hp[th.session].score, !.pc = "L225w"])

\* line 225, the store into session["score"]
L225w(d, us, hp, th) ==
  World(us, [hp EXCEPT ![th.session].score = Increment(th.tmp)],
        [th EXCEPT !.tmp = 0, !.pc = "L227"])

\* lines 226-230
L227(d, us, hp, th) ==
  World(us, hp, SendThen(th, CorrectFeedback(th.ev.from), "L240r"))

\* lines 232-236: row["Option c"] raises KeyError when the frame has no such
\* column
L232(d, us, hp, th) ==
  LET c == d[th.q_index + 1].correct
  IN  World(us, hp,
        IF ~HasOptionColumn(d, c) THEN Raise(th)
        ELSE SendThen(th, IncorrectFeedback(th.ev.from, c), "L240r"))

\* line 240, the read of session["q_index"]
L240r(d, us, hp, th) ==
  World(us, hp, [th EXCEPT !.tmp = hp[th.session].q_index, !.pc = "L240w"])

\* line 240, the store into session["q_index"]
L240w(d, us, hp, th) ==
  World(us, [hp EXCEPT ![th.session].q_index = Advance(th.tmp)],
        [th EXCEPT !.tmp = 0, !.pc = "L241"])

\* line 241
L241(d, us, hp, th) ==
  World(us, hp, [th EXCEPT !.pc = IF HasNext(hp[th.session].q_index, d)
                                  THEN "L242" ELSE "L244"])

\* line 242
L242(d, us, hp, th) ==
  World(us, hp, send_question(d, th, th.ev.from, hp[th.session].q_index))

\* lines 244-247
L244(d, us, hp, th) ==
  World(us, hp,
        SendThen(th, Completion(th.ev.from, hp[th.session].score, Len(d)), "L248"))

\* line 248 clearing the whole dictionary instead of the sender's entry
L248_ClearsAll(d, us, hp, th) ==
  LET u == th.ev.from
  IN  IF us[u] = Absent THEN World(us, hp, Raise(th))
      ELSE World([v \in Users |-> Absent], hp, Return(th, "ok"))

\* line 248: del raises KeyError when the entry is already gone
L248(d, us, hp, th) ==
  LET u == th.ev.from
  IN  IF us[u] = Absent THEN World(us, hp, Raise(th))
      ELSE World([us EXCEPT ![u] = Absent], hp, Return(th, "ok"))

\* the statement at the invocation's position
Step(d, us, hp, th, fresh) ==
  CASE th.pc = "L174"  -> L174(d, us, hp, th)
    [] th.pc = "L179"  -> L179(d, us, hp, th)
    [] th.pc = "L180"  -> L180(d, us, hp, th, fresh)
    [] th.pc = "L183"  -> L183(d, us, hp, th)
    [] th.pc = "L184"  -> L184(d, us, hp, th)
    [] th.pc = "L184r" -> L184r(d, us, hp, th)
    [] th.pc = "L185"  -> L185(d, us, hp, th)
    [] th.pc = "L204"  -> L204(d, us, hp, th)
    [] th.pc = "L204w" -> L204w(d, us, hp, th)
    [] th.pc = "L207"  -> L207(d, us, hp, th)
    [] th.pc = "L215"  -> L215(d, us, hp, th)
    [] th.pc = "L216"  -> L216(d, us, hp, th)
    [] th.pc = "L225r" -> L225r(d, us, hp, th)
    [] th.pc = "L225w" -> L225w(d, us, hp, th)
    [] th.pc = "L227"  -> L227(d, us, hp, th)
    [] th.pc = "L232"  -> L232(d, us, hp, th)
    [] th.pc = "L240r" -> L240r(d, us, hp, th)
    [] th.pc = "L240w" -> L240w(d, us, hp, th)
    [] th.pc = "L241"  -> L241(d, us, hp, th)
    [] th.pc = "L242"  -> L242(d, us, hp, th)
    [] th.pc = "L244"  -> L244(d, us, hp, th)
    [] th.pc = "L248"  -> L248(d, us, hp, th)

\* webhook() at the try of line 173
Enter(ev, net) == [IdleThread EXCEPT !.pc = "L174", !.ev = ev, !.net = net]

\* request.get_json() of line 169 raises before the try block: the exception
\* reaches the caller, which answers with an error status
Rejected(ev) == [Return([IdleThread EXCEPT !.ev = ev], "error") EXCEPT !.raised = TRUE]

\* lines 169-171: a body that is not valid JSON raises BadRequest; a content
\* type that is not JSON raises UnsupportedMediaType or gives data = None,
\* depending on the Flask version; any other body is parsed and printed
Arrive(ev) ==
  IF ev.type = "invalid_json" THEN { Rejected(ev) }
  ELSE IF ev.type = "not_json" THEN { Rejected(ev), Enter(ev, <<>>) }
  ELSE { Enter(ev, <<>>) }

\* objects some name refers to: the dictionary's values and the invocations'
\* local name session
Referenced(us, ths) ==
  { us[u] : u \in Users } \cup { ths[t].session : t \in DOMAIN ths }

\* An object's address is not observable, so the store is kept in one form:
\* user u's session at address u, an object only invocations still refer to
\* at address NumUsers + t for the first such invocation t.
Address(us, ths, o) ==
  IF \E u \in Users : us[u] = o THEN CHOOSE u \in Users : us[u] = o
  ELSE NumUsers + (CHOOSE t \in DOMAIN ths :
                     /\ ths[t].session = o
                     /\ \A x \in DOMAIN ths : ths[x].session = o => t <= x)

Canonical(us, hp, ths) ==
  LET live == Referenced(us, ths) \ {Absent}
  IN  [us   |-> [u \in Users |-> IF us[u] = Absent THEN Absent ELSE u],
       heap |-> [n \in ObjIds |->
                   IF \E o \in live : Address(us, ths, o) = n
                   THEN hp[CHOOSE o \in live : Address(us, ths, o) = n]
                   ELSE FreeObj],
       ths  |-> [t \in DOMAIN ths |->
                   [ths[t] EXCEPT !.session =
                      IF @ = Absent THEN Absent ELSE Address(us, ths, @)]]]

\* an object no name refers to
Fresh(us, ths) == CHOOSE o \in ObjIds : o \notin Referenced(us, ths)

RECURSIVE Run(_, _, _, _, _)
\* webhook(), lines 168-253, run from the invocation's position to its return
\* with no other invocation in between
Run(d, us, hp, th, ths) ==
  IF th.pc = "done" THEN World(us, hp, th)
  ELSE LET w == Step(d, us, hp, th, Fresh(us, ths))
       IN  Run(d, w.us, w.heap, w.th, ths)

(* ----------------------------- the program ---------------------------- *)
\* module load, lines 10-28: the frame is read once, the dictionary is empty
Init ==
  /\ df \in Banks
  /\ user_sessions = [u \in Users |-> Absent]
  /\ heap = [o \in ObjIds |-> FreeObj]
  /\ threads = [t \in Threads |-> IdleThread]
  /\ pre = [u \in Users |-> NoSession]

NoOthers == [t \in Threads |-> IdleThread]

\* the user whose requests Spec and SpecConc follow
ConcUser == CHOOSE u \in Users : TRUE

(* ------------------------- question rendering ------------------------- *)
\* the option numbers of range(1, 5), line 94
OptionNumbers == 1..4

\* every shape a row can have: each of the four option columns missing,
\* blank (NaN) or filled
RowShapes ==
  { r \in [options : SUBSET OptionNumbers, columns : SUBSET OptionNumbers,
           correct : OptionNumbers] : r.options \subseteq r.columns }

\* SpecRender applies send_question to a bank of one row of any shape
InitRender ==
  /\ df \in { <<r>> : r \in RowShapes }
  /\ user_sessions = [u \in Users |-> Absent]
  /\ heap = [o \in ObjIds |-> FreeObj]
  /\ threads = [t \in Threads |-> IdleThread]
  /\ pre = [u \in Users |-> NoSession]

\* send_question(to, q_index) called for a question of the bank, lines 81-139
AskQuestion(to, q, net) ==
  /\ q \in 0..(Len(df) - 1)
  /\ threads' = [NoOthers EXCEPT ![1] = send_question(df, Enter(NoEvent, net), to, q)]
  /\ pre' = View(user_sessions, heap)
  /\ UNCHANGED <<df, user_sessions, heap>>

NextRender == \E to \in Users, q \in 0..MaxQuestions, net \in Nets : AskQuestion(to, q, net)

SpecRender == InitRender /\ [][NextRender]_vars

(* ----------------------- handler invocations -------------------------- *)
\* app.run (line 261) serves each request in a thread of its own, so a
\* request is accepted while others are being handled (the provider also
\* delivers an event again when it has not seen it acknowledged) and the
\* invocations interleave between their statements.
Running(t) == threads[t].pc \notin {"idle", "done"}

\* no invocation is being handled
Quiet == \A t \in Threads : ~Running(t)

\* a request is accepted at any time and enters the first worker thread
\* that is not handling one; the records of the invocations that have
\* returned are cleared.  pre is the store found when no invocation was
\* running, kept while none of the requests accepted since has returned.
Receive(t, ev) ==
  /\ ~Running(t)
  /\ \A o \in Threads : o < t => Running(o)
  /\ \A o \in ObjIds : heap[o].score <= MaxScore /\ heap[o].q_index <= MaxIndex
  /\ \E th \in Arrive(ev) :
        threads' = [o \in Threads |->
                      IF o = t THEN th
                      ELSE IF Running(o) THEN threads[o] ELSE IdleThread]
  /\ pre' = IF Quiet THEN View(user_sessions, heap)
            ELSE IF \E o \in Threads : threads[o].pc = "done"
                 THEN [u \in Users |-> NoSession]
            ELSE pre
  /\ UNCHANGED <<df, user_sessions, heap>>

\* the running invocation t executes its next statement; a requests.post in
\* it has one of the outcomes O
Statement(t, O) ==
  /\ Running(t)
  /\ \E o \in O :
     \E w \in { Step(df, user_sessions, heap, [threads[t] EXCEPT !.net = <<o>>],
                     Fresh(user_sessions, threads)) } :
     \E c \in { Canonical(w.us, w.heap,
                           [threads EXCEPT ![t] = [w.th EXCEPT !.net = <<>>]]) } :
        /\ user_sessions' = c.us
        /\ heap' = c.heap
        /\ threads' = c.ths
  /\ UNCHANGED <<df, pre>>

\* every kind of request of one user (a list reply is handled as the button
\* reply with the same id is, lines 193-196), every send returning
ConcEvents ==
  { ev \in Events : ev.from \in {ConcUser, NoUser} /\ ev.type /= "list_reply" }

NextConc ==
  \/ \E t \in Threads, ev \in ConcEvents : Receive(t, ev)
  \/ \E t \in Threads : Statement(t, {"ok"})

SpecConc == Init /\ [][NextConc]_vars

\* the same requests over a network on which a requests.post may raise, on a
\* bank of at most one question whose correct option is one of its options
InitOne ==
  /\ Init
  /\ Len(df) <= 1
  /\ \A k \in 1..Len(df) : df[k].correct \in df[k].options

Next ==
  \/ \E t \in Threads, ev \in ConcEvents : Receive(t, ev)
  \/ \E t \in Threads : Statement(t, Outcomes)

Spec == InitOne /\ [][Next]_vars

\* the requests of every user, on a bank of one question: texts, start presses
\* and answers, every send returning
InitUsers == Init /\ Len(df) = 1

UserEvents ==
  { ev \in Events : /\ ev.from \in Users
                    /\ ev.type \in {"text", "button_reply"}
                    /\ ev.id \in {"", "start_quiz", "1"}
                    /\ ev.type = "button_reply" => ev.id /= "" }

NextUsers ==
  \/ \E t \in Threads, ev \in UserEvents : Receive(t, ev)
  \/ \E t \in Threads : Statement(t, {"ok"})

SpecUsers == InitUsers /\ [][NextUsers]_vars

(* ------------------------------- claims ------------------------------- *)
\* Handled: invocation 1 has returned and no other request was in flight
\* while it ran (a request accepted meanwhile would be running or done); pre
\* is then the store it found and Now the store it left.
Last == threads[1]
Handled == Last.pc = "done" /\ \A t \in Threads \ {1} : threads[t].pc = "idle"
Now == View(user_sessions, heap)
From == Last.ev.from

IsReply(ev) == ev.type \in {"button_reply", "list_reply"}
\* a reply the handler routes to answer evaluation (line 214)
IsAnswer(ev) == IsReply(ev) /\ ev.id \notin {"", "start_quiz"}
IsStart(ev) == IsReply(ev) /\ ev.id = "start_quiz"

Present(s) == s /= NoSession
\* IN_PROGRESS: a session whose q_index is an integer
InProgress(s) == Present(s) /\ s.q_index /= None
\* AWAITING_START: a session with no active question
AwaitingStart(s) == Present(s) /\ s.q_index = None

Bodies(th) == [i \in 1..Len(th.sent) |-> th.sent[i].msg.body]
Count(seq, x) == Cardinality({ i \in 1..Len(seq) : seq[i] = x })

\* in SpecConc: this step is invocation t executing one statement
Executes(t) == Running(t) /\ threads'[t].pc /= threads[t].pc
\* invocation t sends no message in this step
SendsNothing(t) == threads'[t].sent = threads[t].sent
\* u's session is stored before and after this step and is the same session:
\* no invocation stores a new one for u (line 180) in this step
Kept(u) ==
  /\ Present(Now[u]) /\ Present(Now'[u])
  /\ ~\E t \in Threads : Executes(t) /\ threads[t].pc = "L180" /\ threads[t].ev.from = u

\* user u was on a question of the bank when the last event arrived
OnQuestion(u) == InProgress(pre[u]) /\ pre[u].q_index < Len(df)

\* the index the handled answer left: the stored one, or the question count
\* when the session was removed on completion
IndexAdvanced(u) ==
  IF Present(Now[u]) THEN Now[u].q_index = pre[u].q_index + 1
  ELSE pre[u].q_index + 1 >= Len(df)

\* C1: for a session in IN_PROGRESS, handling an interactive reply whose id is
\* not the start action increases the session's questionIndex by exactly 1,
\* whatever the id (stated for non-empty ids and a session on a question of
\* the bank, the cases the claim is surely about).
C1_IndexAdvancesByOne ==
  (Handled /\ IsAnswer(Last.ev) /\ OnQuestion(From)) => IndexAdvanced(From)

\* the handled event is an answer by u that matches the correct option of the
\* question u was on
MatchesCorrect(u) ==
  /\ IsAnswer(Last.ev) /\ From = u
  /\ OnQuestion(u)
  /\ Last.ev.id = str(df[pre[u].q_index + 1].correct)

\* the event of invocation t is an answer by u that matches the correct option
\* of the question u's session is on
AnswersCurrentQuestion(t, u) ==
  /\ IsAnswer(threads[t].ev) /\ threads[t].ev.from = u
  /\ InProgress(Now[u]) /\ Now[u].q_index < Len(df)
  /\ threads[t].ev.id = str(df[Now[u].q_index + 1].correct)

\* C2: in every step of the handler a session's score changes only by +1, and
\* only when the handled event is an answer whose id equals the string form
\* of the current question's correct option number.
C2_ScoreOnlyOnCorrectAnswer ==
  [][\A t \in Threads : Executes(t) =>
        \A u \in Users :
           (Kept(u) /\ Now'[u].score /= Now[u].score) =>
              /\ Now'[u].score = Now[u].score + 1
              /\ AnswersCurrentQuestion(t, u)]_vars

\* C3: the first inbound event of any type from a user with no session sends
\* exactly one greeting and leaves the user in AWAITING_START (stated for a
\* bank that has questions).
C3_FirstEventGreets ==
  (Handled /\ From \in Users /\ ~Present(pre[From]) /\ ~empty(df)) =>
     /\ Len(Last.sent) = 1
     /\ Last.sent[1].msg = StartPrompt(From)
     /\ AwaitingStart(Now[From])

\* C5: a start action with an empty bank sends the "no content" notice and
\* leaves the session in AWAITING_START.
C5_EmptyBankStaysAwaitingStart ==
  (Handled /\ IsStart(Last.ev) /\ empty(df)) =>
     /\ Count(Bodies(Last), "no_questions_loaded") = 1
     /\ AwaitingStart(Now[From])

\* C6: after a handler returns no stored session has questionIndex at or
\* beyond the question count, and a text from a user whose quiz completed is
\* greeted as from a new user.
C6_NoSessionAtCount ==
  Handled =>
    /\ \A u \in Users : InProgress(Now[u]) => Now[u].q_index < Len(df)
    /\ (Last.ev.type = "text" /\ ~Present(pre[From])) =>
          Count(Bodies(Last), "greeting") = 1

\* C7: every invocation of the handler returns a success status (no exception
\* reaches its caller), whatever the request body, and an invocation handling
\* an event with no messages list sends nothing and changes no session.
C7_AlwaysAcknowledges ==
  /\ [](\A t \in Threads : threads[t].pc = "done" =>
           /\ threads[t].status \in {"ok", "ignored"}
           /\ threads[t].ev.type = "no_messages" => threads[t].sent = <<>>)
  /\ [][\A t \in Threads :
          (Executes(t) /\ threads[t].ev.type = "no_messages") =>
             (Now' = Now /\ SendsNothing(t))]_vars

\* a send of the last invocation failed
SendFailed == \E i \in 1..Len(Last.sent) : Last.sent[i].result = "raise"

\* C8: a send failure while handling an answer does not prevent that answer's
\* session mutation: the index advance is applied, and so is the score
\* update when the answer is correct.
C8_SendFailureKeepsMutation ==
  (Handled /\ IsAnswer(Last.ev) /\ OnQuestion(From) /\ SendFailed) =>
     /\ Present(Now[From])
     /\ Now[From].q_index = pre[From].q_index + 1
     /\ Now[From].score = pre[From].score + (IF MatchesCorrect(From) THEN 1 ELSE 0)

\* C9: in AWAITING_START every non-start event (a text, or a reply whose id is
\* not the start action; stated for non-empty ids and a bank that has
\* questions) re-sends the greeting and leaves the session as it was.
C9_StrayEventRegreets ==
  (Handled /\ From \in Users /\ AwaitingStart(pre[From]) /\ ~empty(df)
     /\ (Last.ev.type = "text" \/ IsAnswer(Last.ev))) =>
     /\ Count(Bodies(Last), "greeting") = 1
     /\ Now[From] = pre[From]

\* C10: the handler looks up the question bank only at an index in
\* [0, questionCount) (stated for a bank that has questions).
C10_LookupsInRange ==
  ~empty(df) => \A i \in 1..Len(Last.lookups) : ValidIndex(df, Last.lookups[i])

\* the store (dictionary and objects) holding the sessions of view v
StoreOf(v) ==
  [us   |-> [u \in Users |-> IF Present(v[u]) THEN u ELSE Absent],
   heap |-> [o \in ObjIds |-> IF o \in Users /\ Present(v[o]) THEN v[o] ELSE FreeObj]]

\* the sessions left by handling ev1 and then ev2, one invocation after the
\* other, from the sessions of view v
HandledInTurn(ev1, ev2, v) ==
  LET s0 == StoreOf(v)
      w1 == Run(df, s0.us, s0.heap, Enter(ev1, AllSendsReturn), NoOthers)
      w2 == Run(df, w1.us, w1.heap, Enter(ev2, AllSendsReturn), NoOthers)
  IN  View(w2.us, w2.heap)

\* invocation t evaluated the answer and sent its feedback
Evaluated(t) ==
  \E i \in 1..Len(threads[t].sent) : threads[t].sent[i].msg.body \in {"correct", "incorrect"}

\* in SpecConc: two answers arrived while the user was on a question, the
\* second while the first was being handled; both invocations evaluated
\* their answer and both have returned
TwoAnswersHandled ==
  /\ threads[1].pc = "done" /\ Evaluated(1) /\ IsAnswer(threads[1].ev)
  /\ threads[2].pc = "done" /\ Evaluated(2) /\ IsAnswer(threads[2].ev)
  /\ OnQuestion(ConcUser)

\* C4: two answer events of one user handled concurrently leave the score and
\* questionIndex that handling them one after the other, in one order or the
\* other, leaves.
C4_ConcurrentAnswersSerialize ==
  TwoAnswersHandled =>
     Now[ConcUser] \in { HandledInTurn(threads[1].ev, threads[2].ev, pre)[ConcUser],
                         HandledInTurn(threads[2].ev, threads[1].ev, pre)[ConcUser] }

\* user u was on the last question of the bank when the last event arrived
OnLastQuestion(u) == OnQuestion(u) /\ pre[u].q_index = Len(df) - 1

\* the score after the handled answer of u: one more when it is correct
ScoreAfter(u) == pre[u].score + (IF MatchesCorrect(u) THEN 1 ELSE 0)

\* C11: handling an answer to the last question sends, in this order, one
\* feedback message (correct, or incorrect naming the correct option) and one
\* completion message carrying score/total, the score counting the correct
\* answers of the session and the total being the question count; the session
\* is removed afterwards.
C11_LastAnswerCompletes ==
  (Handled /\ IsAnswer(Last.ev) /\ OnLastQuestion(From)) =>
     /\ Len(Last.sent) = 2
     /\ Last.sent[1].msg =
           IF MatchesCorrect(From) THEN CorrectFeedback(From)
           ELSE IncorrectFeedback(From, df[Len(df)].correct)
     /\ Last.sent[2].msg = Completion(From, ScoreAfter(From), Len(df))
     /\ ~Present(Now[From])

\* C12: within one session (while it stays stored) no step of any invocation
\* decreases the score.
C12_ScoreNonDecreasing ==
  [][\A u \in Users :
        Kept(u) => Now'[u].score >= Now[u].score]_vars

\* the question messages sent by the invocations
SentBy(t) == { threads[t].sent[i].msg : i \in 1..Len(threads[t].sent) }

QuestionsSent == { m \in UNION { SentBy(t) : t \in Threads } : m.body = "question" }

\* C13: rendering depends only on the number of present options: a question
\* with 1, 2 or 3 options is sent as a button set with one button per option,
\* a question with 4 options as a single-select list, each entry's id is the
\* option number as a string, and a button message never carries more than 3
\* entries.
C13_RenderingByOptionCount ==
  \A m \in QuestionsSent :
     LET row == df[m.n]
         k   == Cardinality(row.options)
     IN  /\ k \in 1..3 => (m.type = "button" /\ Len(m.ids) = k)
         /\ k = 4 => (m.type = "list" /\ Len(m.ids) = 4)
         /\ k >= 1 => { m.ids[j] : j \in 1..Len(m.ids) } = { str(o) : o \in row.options }
         /\ m.type = "button" => Len(m.ids) <= 3

\* a question with exactly three options went out
C13_Witness ==
  \E m \in QuestionsSent : Cardinality(df[m.n].options) = 3 /\ m.type = "button"

\* the correct option number of the question user u was on is not one of the
\* options that question has
CorrectAbsent(u) ==
  /\ OnQuestion(u)
  /\ df[pre[u].q_index + 1].correct \notin df[pre[u].q_index + 1].options

\* the score the handled event left or, when the session was removed, reported
ScoreKept(u) ==
  IF Present(Now[u]) THEN Now[u].score = pre[u].score
  ELSE \E i \in 1..Len(Last.sent) :
         Last.sent[i].msg.body = "completed" /\ Last.sent[i].msg.n = pre[u].score

\* C14: when the current question's correct option number is not one of its
\* present options, every answer is handled as incorrect without an error:
\* the incorrect feedback goes out, the score is unchanged and the index
\* advances by 1.
C14_AbsentCorrectOptionNeverCorrect ==
  (Handled /\ IsAnswer(Last.ev) /\ CorrectAbsent(From)) =>
     /\ ~Last.raised
     /\ Count(Bodies(Last), "incorrect") = 1
     /\ Count(Bodies(Last), "correct") = 0
     /\ ScoreKept(From)
     /\ IndexAdvanced(From)

\* the question messages of the last invocation, in the order sent
QuestionsOf(th) == SelectSeq([i \in 1..Len(th.sent) |-> th.sent[i].msg],
                             LAMBDA m : m.body = "question")

\* C15: with a non-empty bank of N questions and no send failure, a first
\* start action followed by N answers shows questions 0, 1, ..., N-1 in that
\* order, each once, and the N-th answer sends the completion message and
\* removes the session.  Stated per event of such a run: the start shows
\* question 0 and sets index 0; an answer on question k < N-1 shows question
\* k+1 once and sets index k+1; an answer on question N-1 shows no question,
\* sends one completion message and removes the session.
C15_QuizRunsInOrder ==
  (Handled /\ From \in Users /\ ~empty(df)) =>
     /\ (IsStart(Last.ev) /\ ~InProgress(pre[From])) =>
           /\ QuestionsOf(Last) = << QuestionMsg(From, 0, df[1]) >>
           /\ InProgress(Now[From]) /\ Now[From].q_index = 0
     /\ (IsAnswer(Last.ev) /\ OnQuestion(From) /\ ~OnLastQuestion(From)) =>
           /\ QuestionsOf(Last) =
                 << QuestionMsg(From, pre[From].q_index + 1, df[pre[From].q_index + 2]) >>
           /\ Count(Bodies(Last), "completed") = 0
           /\ InProgress(Now[From]) /\ Now[From].q_index = pre[From].q_index + 1
     /\ (IsAnswer(Last.ev) /\ OnLastQuestion(From)) =>
           /\ QuestionsOf(Last) = <<>>
           /\ Count(Bodies(Last), "completed") = 1
           /\ ~Present(Now[From])

\* an event that is not an interactive button or list reply
NotAReply(ev) == ev.type \in {"text", "unknown_interactive", "image"}

\* C16: an invocation handling an event that is not an interactive button/list
\* reply (a text, an interactive message of unknown sub-type, a message of
\* another type) changes no session that is IN_PROGRESS in any of its steps,
\* and when the session it looks up (line 184) is IN_PROGRESS it returns
\* without having sent anything.
C16_NonReplyIgnoredInProgress ==
  [][\A t \in Threads :
        (Executes(t) /\ NotAReply(threads[t].ev)) =>
           /\ \A u \in Users : InProgress(Now[u]) => Now'[u] = Now[u]
           /\ (threads[t].pc = "L184r" /\ InProgress(heap[threads[t].session])) =>
                 /\ threads'[t].pc = "done"
                 /\ threads'[t].sent = <<>>]_vars

\* the questionIndex of a session, an unset index counted as 0
IndexOrZero(s) == IF s.q_index = None THEN 0 ELSE s.q_index

\* C17: every stored session has score <= questionIndex <= questionCount
\* (an unset index counted as 0), and the score a completion message reports
\* does not exceed its total, whatever the events were (a start action in the
\* middle of a quiz included).
C17_ScoreWithinIndexWithinCount ==
  /\ \A u \in Users :
        (Quiet /\ Present(Now[u])) =>
           /\ Now[u].score <= IndexOrZero(Now[u])
           /\ IndexOrZero(Now[u]) <= Len(df)
  /\ \A t \in Threads : \A m \in SentBy(t) : m.body = "completed" => m.n <= m.m

\* invocation t sent the completion message
Completed(t) == \E m \in SentBy(t) : m.body = "completed"

\* C18: the completion message of a quiz attempt is sent at most once and no
\* question beyond the bank is ever sent, also when the answer to the last
\* question is delivered twice and both deliveries are handled concurrently.
C18_CompletionSentOnce ==
  /\ Cardinality({ t \in Threads : Completed(t) }) <= 1
  /\ \A m \in QuestionsSent : m.n <= Len(df)

\* C19: no step of an invocation handling an event from user A creates,
\* changes or deletes the session of another user B, and every message an
\* invocation sends is addressed to the sender of its event.
C19_OtherUsersUntouched ==
  /\ [](\A t \in Threads : \A m \in SentBy(t) : m.to = threads[t].ev.from)
  /\ [][\A t \in Threads : Executes(t) =>
          \A u \in Users : u /= threads[t].ev.from => Now'[u] = Now[u]]_vars

\* A's invocation completed the quiz (message sent, session removed) while an
\* invocation of B was in the middle of B's answer
C19_Witness ==
  \E t, o \in Threads :
     /\ threads[t].pc = "done" /\ Completed(t) /\ ~Present(Now[threads[t].ev.from])
     /\ threads[o].ev.from \in Users \ {threads[t].ev.from}
     /\ threads[o].pc = "L240w" /\ InProgress(Now[threads[o].ev.from])

====
